---------------------------- MODULE Spec2Model ----------------------------
(* Model of the SpaceX portfolio tracker (src/portfolio.py): the two price *)
(* fetchers, the P&L calculator, the portfolio aggregator and the two HTTP *)
(* handlers /api/portfolio and /api/update-title.                          *)
(*                                                                         *)
(* Numbers.  A Python int is an integer of any size and a Python float is  *)
(* an IEEE-754 binary64 value; both are built on natural numbers kept as   *)
(* digit sequences, and every float operation rounds its exact result to   *)
(* the nearest binary64 value, ties to even, as the hardware does.         *)
(*                                                                         *)
(* Values.  A decoded JSON / Python value is a tagged record:              *)
(*   [t |-> "null"]             None                                       *)
(*   [t |-> "bool",  b |-> ..]  True / False                               *)
(*   [t |-> "int",   i |-> ..]  an int                                     *)
(*   [t |-> "float", f |-> ..]  a float                                    *)
(*   [t |-> "str",   s |-> ..]  a string, as the sequence of its           *)
(*                              characters                                 *)
(*   [t |-> "list",  items |-> <<...>>]                                    *)
(*   [t |-> "dict",  kv |-> <<...>>]  a dict, as the sequence of its       *)
(*                              <<key, value>> pairs in insertion order,   *)
(*                              each key a string's character sequence     *)
(* The outcome of a call is Return(v) or Raise(e), e the exception's name. *)
(* A printable ASCII character, a tab, a line feed, a form feed or a        *)
(* carriage return is the one-character string of itself.  The other       *)
(* characters are written by name, by what the code can tell of them:      *)
(*   "VT"            the vertical tab                                      *)
(*   "Nd0" .. "Nd9"  a character outside ASCII that Unicode lists as a     *)
(*                   decimal digit of that value (a full-width or an       *)
(*                   Arabic-Indic digit, say)                              *)
(*   "Zs"            a blank outside ASCII (a no-break space, say)         *)
(*   "Xx"            any other character: a control character that is not  *)
(*                   a blank, or a character outside ASCII that is         *)
(*                   neither a decimal digit nor a blank                   *)
EXTENDS Integers, Sequences, FiniteSets, TLC

----------------------------------------------------------------------------
(* Natural numbers of any size                                             *)
(* A natural number is the sequence of its digits in base 2^15, least      *)
(* significant first, without leading zero digits; zero is <<>>.           *)

Base == 2^15

Min(a, b) == IF a < b THEN a ELSE b

Max(a, b) == IF a > b THEN a ELSE b

Limb(a, i) == IF i >= 1 /\ i <= Len(a) THEN a[i] ELSE 0

\* a without its leading zero digits
Trim(a) ==
    LET used == {i \in 1..Len(a) : a[i] # 0}
    IN  IF used = {} THEN <<>>
        ELSE SubSeq(a, 1, CHOOSE i \in used : \A j \in used : j <= i)

RECURSIVE NatOfInt(_)
NatOfInt(x) ==
    IF x = 0 THEN <<>> ELSE <<x % Base>> \o NatOfInt(x \div Base)

One == <<1>>

\* The digit-by-digit operations below walk the digits lo..hi by halving
\* the range, carrying from the lower half into the upper half.

RECURSIVE NatAddRange(_, _, _, _, _)
NatAddRange(a, b, lo, hi, carry) ==
    IF lo > hi THEN [d |-> <<>>, c |-> carry]
    ELSE IF lo = hi
    THEN LET s == Limb(a, lo) + Limb(b, lo) + carry
         IN  [d |-> <<s % Base>>, c |-> s \div Base]
    ELSE LET mid   == (lo + hi) \div 2
             lower == NatAddRange(a, b, lo, mid, carry)
             upper == NatAddRange(a, b, mid + 1, hi, lower.c)
         IN  [d |-> lower.d \o upper.d, c |-> upper.c]

NatAdd(a, b) ==
    LET r == NatAddRange(a, b, 1, Max(Len(a), Len(b)), 0)
    IN  IF r.c = 0 THEN r.d ELSE r.d \o <<r.c>>

RECURSIVE NatSubRange(_, _, _, _, _)
NatSubRange(a, b, lo, hi, borrow) ==
    IF lo > hi THEN [d |-> <<>>, c |-> borrow]
    ELSE IF lo = hi
    THEN LET s == Limb(a, lo) - Limb(b, lo) - borrow
         IN  IF s < 0 THEN [d |-> <<s + Base>>, c |-> 1]
                      ELSE [d |-> <<s>>, c |-> 0]
    ELSE LET mid   == (lo + hi) \div 2
             lower == NatSubRange(a, b, lo, mid, borrow)
             upper == NatSubRange(a, b, mid + 1, hi, lower.c)
         IN  [d |-> lower.d \o upper.d, c |-> upper.c]

\* a - b for a >= b
NatSub(a, b) == Trim(NatSubRange(a, b, 1, Len(a), 0).d)

\* -1, 0 or 1 as a < b, a = b or a > b
NatCmp(a, b) ==
    IF Len(a) < Len(b) THEN -1
    ELSE IF Len(a) > Len(b) THEN 1
    ELSE LET differ == {i \in 1..Len(a) : a[i] # b[i]}
         IN  IF differ = {} THEN 0
             ELSE LET top == CHOOSE i \in differ : \A j \in differ : j <= i
                  IN  IF a[top] < b[top] THEN -1 ELSE 1

RECURSIVE NatMulSmallRange(_, _, _, _, _)
NatMulSmallRange(a, k, lo, hi, carry) ==
    IF lo > hi THEN [d |-> <<>>, c |-> carry]
    ELSE IF lo = hi
    THEN LET s == a[lo] * k + carry
         IN  [d |-> <<s % Base>>, c |-> s \div Base]
    ELSE LET mid   == (lo + hi) \div 2
             lower == NatMulSmallRange(a, k, lo, mid, carry)
             upper == NatMulSmallRange(a, k, mid + 1, hi, lower.c)
         IN  [d |-> lower.d \o upper.d, c |-> upper.c]

\* a * k for 0 <= k < Base
NatMulSmall(a, k) ==
    IF k = 0 THEN <<>>
    ELSE LET r == NatMulSmallRange(a, k, 1, Len(a), 0)
         IN  IF r.c = 0 THEN r.d ELSE r.d \o <<r.c>>

Zeros(n) == [i \in 1..n |-> 0]

Reverse(s) == [i \in 1..Len(s) |-> s[Len(s) + 1 - i]]

RECURSIVE NatMulRange(_, _, _, _)
NatMulRange(a, b, lo, hi) ==
    IF lo = hi
    THEN IF b[lo] = 0 THEN <<>> ELSE Zeros(lo - 1) \o NatMulSmall(a, b[lo])
    ELSE LET mid == (lo + hi) \div 2
         IN  NatAdd(NatMulRange(a, b, lo, mid), NatMulRange(a, b, mid + 1, hi))

NatMul(a, b) ==
    IF a = <<>> \/ b = <<>> THEN <<>> ELSE NatMulRange(a, b, 1, Len(b))

RECURSIVE NatDivSmallRange(_, _, _, _, _)
NatDivSmallRange(a, k, hi, lo, rem) ==
    IF hi < lo THEN [q |-> <<>>, r |-> rem]
    ELSE IF hi = lo
    THEN LET cur == rem * Base + a[hi]
         IN  [q |-> <<cur \div k>>, r |-> cur % k]
    ELSE LET mid   == (lo + hi + 1) \div 2
             upper == NatDivSmallRange(a, k, hi, mid, rem)
             lower == NatDivSmallRange(a, k, mid - 1, lo, upper.r)
         IN  [q |-> upper.q \o lower.q, r |-> lower.r]

\* quotient (a natural) and remainder (an integer) of a by k, 0 < k <= Base
NatDivSmall(a, k) ==
    LET Result(d) == [q |-> Trim(Reverse(d.q)), r |-> d.r]
    IN  Result(NatDivSmallRange(a, k, Len(a), 1, 0))

\* a * 2^n
NatShl(a, n) ==
    IF a = <<>> THEN <<>>
    ELSE Zeros(n \div 15) \o NatMulSmall(a, 2^(n % 15))

\* a \div 2^n
NatShr(a, n) ==
    IF n \div 15 >= Len(a) THEN <<>>
    ELSE NatDivSmall(SubSeq(a, n \div 15 + 1, Len(a)), 2^(n % 15)).q

RECURSIVE BitLenSmall(_)
BitLenSmall(x) == IF x = 0 THEN 0 ELSE 1 + BitLenSmall(x \div 2)

\* number of binary digits of a
BitLen(a) ==
    IF a = <<>> THEN 0 ELSE 15 * (Len(a) - 1) + BitLenSmall(a[Len(a)])

IsOdd(a) == a # <<>> /\ a[1] % 2 = 1

\* the largest digit q <= guess with q * v <= r, and what it leaves of r;
\* guess is at most two above it when the leading digit of v is at least
\* Base / 2
RECURSIVE QuotientDigit(_, _, _)
QuotientDigit(r, v, guess) ==
    IF NatCmp(NatMulSmall(v, guess), r) > 0
    THEN QuotientDigit(r, v, guess - 1)
    ELSE [q |-> <<guess>>, r |-> NatSub(r, NatMulSmall(v, guess))]

\* one step of the schoolbook division by v: the next digit of the
\* quotient, from a first guess by the two leading digits of cur
LongDivStep(cur, v) ==
    QuotientDigit(cur, v,
                  IF Len(cur) < Len(v) THEN 0
                  ELSE Min(Base - 1,
                           (Limb(cur, Len(v) + 1) * Base + Limb(cur, Len(v)))
                               \div v[Len(v)]))

\* schoolbook division of the digits hi..lo of u by v, entered with the
\* remainder rem < v left by the digits above hi; the digits of the
\* quotient come out most significant first
RECURSIVE LongDivRange(_, _, _, _, _)
LongDivRange(u, v, hi, lo, rem) ==
    IF hi < lo THEN [q |-> <<>>, r |-> rem]
    ELSE IF hi = lo
    THEN LongDivStep(Trim(<<u[hi]>> \o rem), v)
    ELSE LET mid   == (lo + hi + 1) \div 2
             upper == LongDivRange(u, v, hi, mid, rem)
             lower == LongDivRange(u, v, mid - 1, lo, upper.r)
         IN  [q |-> upper.q \o lower.q, r |-> lower.r]

\* quotient and remainder of un by vn, the remainder divided by 2^s; the
\* leading digit of vn is at least Base / 2
NatDivScaled(un, vn, s) ==
    LET head == Min(Len(un), Len(vn) - 1)
        Result(d) == [q |-> Trim(Reverse(d.q)), r |-> NatShr(d.r, s)]
    IN  Result(LongDivRange(un, vn, Len(un) - head, 1,
                            SubSeq(un, Len(un) - head + 1, Len(un))))

\* quotient and remainder (both naturals) of u by v, v > 0
NatDivMod(u, v) ==
    LET s == 15 - BitLenSmall(v[Len(v)])
    IN  NatDivScaled(NatShl(u, s), NatShl(v, s), s)

RECURSIVE Pow10Nat(_)
Pow10Nat(k) ==
    IF k = 0 THEN One
    ELSE IF k = 1 THEN <<10>>
    ELSE NatMul(Pow10Nat(k \div 2), Pow10Nat(k - k \div 2))

----------------------------------------------------------------------------
(* Python int: a sign and a magnitude; zero is not negative                *)

Integer(neg, mag) == [neg |-> neg /\ mag # <<>>, mag |-> mag]

IntOf(x) == Integer(x < 0, NatOfInt(IF x < 0 THEN -x ELSE x))

IntNeg(a) == Integer(~a.neg, a.mag)

IntAdd(a, b) ==
    LET Difference(big, small) == Integer(big.neg, NatSub(big.mag, small.mag))
    IN  IF a.neg = b.neg THEN Integer(a.neg, NatAdd(a.mag, b.mag))
        ELSE IF NatCmp(a.mag, b.mag) >= 0 THEN Difference(a, b)
        ELSE Difference(b, a)

IntSub(a, b) == IntAdd(a, IntNeg(b))

IntMul(a, b) == Integer(a.neg # b.neg, NatMul(a.mag, b.mag))

----------------------------------------------------------------------------
(* Python float: an IEEE-754 binary64 value                                *)
(*   [c |-> "fin", neg, m, e]   (-1)^neg * m * 2^e, where m is a natural   *)
(*                              below 2^53 and e >= -1074; m >= 2^52       *)
(*                              unless e = -1074; zero is m = <<>>, e = 0  *)
(*   [c |-> "inf", neg, ..]     an infinity                                *)
(*   [c |-> "nan", ..]          not a number                               *)
(* Every operation rounds its exact result to the nearest value, ties to   *)
(* the even mantissa.                                                      *)

MantBits == 53

MinExp == -1074

MaxExp == 971

Fin(neg, m, e) == [c |-> "fin", neg |-> neg, m |-> m, e |-> e]

FZero(neg) == Fin(neg, <<>>, 0)

FInf(neg) == [c |-> "inf", neg |-> neg, m |-> <<>>, e |-> 0]

FNan == [c |-> "nan", neg |-> FALSE, m |-> <<>>, e |-> 0]

IsZero(x) == x.c = "fin" /\ x.m = <<>>

\* (-1)^neg * m * 2^E as a double, for m of at most MantBits digits or
\* 2^MantBits: an infinity when E gets beyond MaxExp
Normal(neg, m, E) ==
    IF m = <<>> THEN FZero(neg)
    ELSE IF BitLen(m) > MantBits
    THEN IF E + 1 > MaxExp THEN FInf(neg) ELSE Fin(neg, NatShr(m, 1), E + 1)
    ELSE IF E > MaxExp THEN FInf(neg)
    ELSE Fin(neg, m, E)

\* q + f, with 0 <= f < 1 and sticky telling whether f > 0, is rounded up
\* when its last k binary digits are cut off: they come to more than half
\* a unit of the digit above, or to half of one that is odd
RoundsUp(q, k, sticky) ==
    LET m == NatShr(q, k)
        c == NatCmp(NatSub(q, NatShl(m, k)), NatShl(One, k - 1))
    IN  c > 0 \/ (c = 0 /\ (sticky \/ IsOdd(m)))

\* the double nearest to (-1)^neg * (q + f) * 2^e, where 0 <= f < 1 and
\* sticky tells whether f > 0; an infinity when that is out of range
RoundNat(neg, q, sticky, e) ==
    LET E == Max(e + BitLen(q) - MantBits, MinExp)
    IN  IF q = <<>> THEN FZero(neg)
        ELSE IF E <= e THEN Normal(neg, NatShl(q, e - E), E)
        ELSE Normal(neg,
                    IF RoundsUp(q, E - e, sticky)
                    THEN NatAdd(NatShr(q, E - e), One)
                    ELSE NatShr(q, E - e),
                    E)

\* the double nearest to (-1)^neg * (qr.q + qr.r / d) * 2^e, for the
\* quotient and the remainder qr of a division by d
RoundQuotient(neg, qr, e) == RoundNat(neg, qr.q, qr.r # <<>>, e)

\* the double nearest to (-1)^neg * (n / d) * 2^e, d > 0
\* (n / d is first scaled by 2^s to a quotient of MantBits + 2 digits or
\* one more)
RoundRat(neg, n, d, e) ==
    LET s == MantBits + 2 - (BitLen(n) - BitLen(d))
    IN  IF n = <<>> THEN FZero(neg)
        ELSE RoundQuotient(neg,
                           NatDivMod(IF s >= 0 THEN NatShl(n, s) ELSE n,
                                     IF s >= 0 THEN d ELSE NatShl(d, -s)),
                           e - s)

FNeg(x) == IF x.c = "nan" THEN x ELSE [x EXCEPT !.neg = ~x.neg]

\* the double nearest to i * 2^e for an int i
ScaledInt(i, e) == RoundNat(i.neg, i.mag, FALSE, e)

\* x + y for finite x and y that are not zero
FAddFinite(x, y) ==
    LET e == Min(x.e, y.e)
    IN  ScaledInt(IntAdd(Integer(x.neg, NatShl(x.m, x.e - e)),
                         Integer(y.neg, NatShl(y.m, y.e - e))),
                  e)

\* A term more than MantBits + 2 binary places below the other changes the
\* sum only through its sign: it is replaced by 2^-3 units of the last
\* place of the other, which rounds the same way.
FAdd(x, y) ==
    IF x.c = "nan" \/ y.c = "nan" THEN FNan
    ELSE IF x.c = "inf"
         THEN IF y.c = "inf" /\ y.neg # x.neg THEN FNan ELSE x
    ELSE IF y.c = "inf" THEN y
    ELSE IF IsZero(x) /\ IsZero(y) THEN FZero(x.neg /\ y.neg)
    ELSE IF IsZero(x) THEN y
    ELSE IF IsZero(y) THEN x
    ELSE FAddFinite(IF y.e - x.e > MantBits + 2
                    THEN Fin(x.neg, One, y.e - 3) ELSE x,
                    IF x.e - y.e > MantBits + 2
                    THEN Fin(y.neg, One, x.e - 3) ELSE y)

FSub(x, y) == FAdd(x, FNeg(y))

FMul(x, y) ==
    IF x.c = "nan" \/ y.c = "nan" THEN FNan
    ELSE IF x.c = "inf" \/ y.c = "inf"
         THEN IF IsZero(x) \/ IsZero(y) THEN FNan ELSE FInf(x.neg # y.neg)
    ELSE RoundNat(x.neg # y.neg, NatMul(x.m, y.m), FALSE, x.e + y.e)

\* x / y for y not zero
FDiv(x, y) ==
    IF x.c = "nan" \/ y.c = "nan" THEN FNan
    ELSE IF x.c = "inf"
         THEN IF y.c = "inf" THEN FNan ELSE FInf(x.neg # y.neg)
    ELSE IF y.c = "inf" THEN FZero(x.neg # y.neg)
    ELSE RoundRat(x.neg # y.neg, x.m, y.m, x.e - y.e)

\* Python's ==
FEq(x, y) ==
    /\ x.c # "nan"
    /\ y.c # "nan"
    /\ \/ x = y
       \/ IsZero(x) /\ IsZero(y)

\* float(i) for an int i: an infinity stands for OverflowError
FloatOfInt(i) == ScaledInt(i, 0)

\* the double nearest to (-1)^neg * digits * 10^exp10
FloatOfDecimal(neg, digits, exp10) ==
    IF exp10 >= 0
    THEN RoundNat(neg, NatMul(digits, Pow10Nat(exp10)), FALSE, 0)
    ELSE RoundRat(neg, digits, Pow10Nat(-exp10), 0)

Dec(n, exp10) ==
    FloatOfDecimal(n < 0, NatOfInt(IF n < 0 THEN -n ELSE n), exp10)

----------------------------------------------------------------------------
(* Decoded JSON / Python values                                            *)

PyNone == [t |-> "null"]

PyBool(b) == [t |-> "bool", b |-> b]

PyInt(i) == [t |-> "int", i |-> i]

PyFloat(f) == [t |-> "float", f |-> f]

PyStr(s) == [t |-> "str", s |-> s]

PyList(items) == [t |-> "list", items |-> items]

PyDict(kv) == [t |-> "dict", kv |-> kv]

Minimum(S) == CHOOSE i \in S : \A j \in S : i <= j

Maximum(S) == CHOOSE i \in S : \A j \in S : j <= i

\* the least member of S, or other when S is empty
FirstOr(S, other) == IF S = {} THEN other ELSE Minimum(S)

\* the positions of key in the dict d (at most one)
KeyAt(d, key) == {i \in 1..Len(d.kv) : d.kv[i][1] = key}

\* d.get(key): None when the key is absent
DictGet(d, key) ==
    IF KeyAt(d, key) = {} THEN PyNone ELSE d.kv[Minimum(KeyAt(d, key))][2]

\* d.get(key, default)
DictGetDefault(d, key, default) ==
    IF KeyAt(d, key) = {} THEN default ELSE d.kv[Minimum(KeyAt(d, key))][2]

\* the outcome of a Python call: a returned value or a raised exception
Return(v) == [raised |-> FALSE, value |-> v]

Raise(e) == [raised |-> TRUE, error |-> e]

\* v is an int, a float or a bool
IsNumber(v) == v.t \in {"int", "float", "bool"}

\* the int a bool or an int stands for
AsInteger(v) ==
    IF v.t = "bool" THEN IntOf(IF v.b THEN 1 ELSE 0) ELSE v.i

\* the float operand a number becomes next to a float
ToFloat(v) ==
    LET Checked(f) ==
            IF f.c = "inf" THEN Raise("OverflowError") ELSE Return(f)
    IN  IF v.t = "float" THEN Return(v.f)
        ELSE Checked(FloatOfInt(AsInteger(v)))

\* the finite float f has exactly the value of the int i
FloatIsInteger(f, i) ==
    /\ f.c = "fin"
    /\ \/ f.m = <<>> /\ i.mag = <<>>
       \/ /\ f.m # <<>>
          /\ f.neg = i.neg
          /\ IF f.e >= 0 THEN NatShl(f.m, f.e) = i.mag
                         ELSE f.m = NatShl(i.mag, -f.e)

\* a == b, where one side is a string or a number, as in every comparison
\* the code makes (numbers compare by value across int, float and bool)
PyEq(a, b) ==
    IF IsNumber(a) /\ IsNumber(b)
    THEN IF a.t # "float" /\ b.t # "float" THEN AsInteger(a) = AsInteger(b)
         ELSE IF a.t = "float" /\ b.t = "float" THEN FEq(a.f, b.f)
         ELSE IF a.t = "float" THEN FloatIsInteger(a.f, AsInteger(b))
         ELSE FloatIsInteger(b.f, AsInteger(a))
    ELSE a.t = b.t /\ a = b

\* +, - and * on two ints
IntOp(op, i, j) ==
    CASE op \in {"+", "-"} -> IntAdd(i, IF op = "-" THEN IntNeg(j) ELSE j)
      [] op = "*"          -> IntMul(i, j)

\* i / j on two ints: the float nearest to the quotient
IntTrueDiv(i, j) ==
    LET Checked(q) ==
            IF q.c = "inf" THEN Raise("OverflowError")
            ELSE Return(PyFloat(q))
    IN  IF j.mag = <<>> THEN Raise("ZeroDivisionError")
        ELSE Checked(RoundRat(i.neg # j.neg, i.mag, j.mag, 0))

\* +, -, * and / on two floats, the divisor not zero
FloatOp(op, x, y) ==
    CASE op \in {"+", "-"} -> FAdd(x, IF op = "-" THEN FNeg(y) ELSE y)
      [] op = "*"          -> FMul(x, y)
      [] op = "/"          -> FDiv(x, y)

\* x op y for the float operands the two sides became, if they did
FloatBinary(op, x, y) ==
    IF x.raised THEN x
    ELSE IF y.raised THEN y
    ELSE IF op = "/" /\ IsZero(y.value) THEN Raise("ZeroDivisionError")
    ELSE Return(PyFloat(FloatOp(op, x.value, y.value)))

\* a op b for a binary arithmetic operator: ints give an int, or a float
\* when divided; a float on either side makes the other a float first
\* (OverflowError when it is an int no float can hold); the code meets a
\* value that is not a number only in current_price - purchase_price, a
\* TypeError
Binary(op, a, b) ==
    IF ~IsNumber(a) \/ ~IsNumber(b) THEN Raise("TypeError")
    ELSE IF a.t = "float" \/ b.t = "float"
    THEN FloatBinary(op, ToFloat(a), ToFloat(b))
    ELSE IF op = "/" THEN IntTrueDiv(AsInteger(a), AsInteger(b))
    ELSE Return(PyInt(IntOp(op, AsInteger(a), AsInteger(b))))

\* a + b
PyAdd(a, b) == Binary("+", a, b)

\* a - b
PySub(a, b) == Binary("-", a, b)

\* a * b
PyMul(a, b) == Binary("*", a, b)

\* a / b
PyTrueDiv(a, b) == Binary("/", a, b)

\* op applied to the values of two outcomes, the first exception winning
Bind(op, ra, rb) ==
    IF ra.raised THEN ra
    ELSE IF rb.raised THEN rb
    ELSE Binary(op, ra.value, rb.value)

\* the truth value of v (if v: ...)
Truthy(v) ==
    CASE v.t = "null"  -> FALSE
      [] v.t = "bool"  -> v.b
      [] v.t = "int"   -> v.i.mag # <<>>
      [] v.t = "float" -> ~IsZero(v.f)
      [] v.t = "str"   -> v.s # <<>>
      [] v.t = "list"  -> v.items # <<>>
      [] v.t = "dict"  -> v.kv # <<>>

----------------------------------------------------------------------------
(* Strings and float()                                                     *)

Digits == {"0", "1", "2", "3", "4", "5", "6", "7", "8", "9"}

DigitVal(c) ==
    CASE c = "0" -> 0 [] c = "1" -> 1 [] c = "2" -> 2 [] c = "3" -> 3
      [] c = "4" -> 4 [] c = "5" -> 5 [] c = "6" -> 6 [] c = "7" -> 7
      [] c = "8" -> 8 [] c = "9" -> 9

DigitChar(d) ==
    CASE d = 0 -> "0" [] d = 1 -> "1" [] d = 2 -> "2" [] d = 3 -> "3"
      [] d = 4 -> "4" [] d = 5 -> "5" [] d = 6 -> "6" [] d = 7 -> "7"
      [] d = 8 -> "8" [] d = 9 -> "9"

\* what float() reads a character as: a decimal digit outside ASCII as the
\* ASCII digit of its value, a blank outside ASCII as a space, any other
\* character outside ASCII as one that no number contains
AsciiOf(c) ==
    CASE c = "Nd0" -> "0" [] c = "Nd1" -> "1" [] c = "Nd2" -> "2"
      [] c = "Nd3" -> "3" [] c = "Nd4" -> "4" [] c = "Nd5" -> "5"
      [] c = "Nd6" -> "6" [] c = "Nd7" -> "7" [] c = "Nd8" -> "8"
      [] c = "Nd9" -> "9" [] c = "Zs" -> " " [] c = "Xx" -> "?"
      [] OTHER -> c

\* the ASCII text float() parses for the string s
Transliterate(s) == [i \in 1..Len(s) |-> AsciiOf(s[i])]

\* the ASCII characters float() skips around a number: space, tab, line
\* feed, vertical tab, form feed and carriage return
Whitespace == {" ", "\t", "\n", "VT", "\f", "\r"}

\* s without its leading and trailing blanks
Strip(s) ==
    LET kept == {i \in 1..Len(s) : s[i] \notin Whitespace}
    IN  IF kept = {} THEN <<>> ELSE SubSeq(s, Minimum(kept), Maximum(kept))

\* c in lower case, for the letters of "infinity" and "nan"
Lower(c) ==
    CASE c = "I" -> "i" [] c = "N" -> "n" [] c = "F" -> "f" [] c = "T" -> "t"
      [] c = "Y" -> "y" [] c = "A" -> "a" [] OTHER -> c

\* digits, with single underscores allowed between two digits
IsDigitPart(s) ==
    /\ s # <<>>
    /\ \A i \in 1..Len(s) : s[i] \in Digits \/ s[i] = "_"
    /\ s[1] # "_"
    /\ s[Len(s)] # "_"
    /\ \A i \in 1..(Len(s) - 1) : ~(s[i] = "_" /\ s[i + 1] = "_")

DigitsOf(s) == SelectSeq(s, LAMBDA c : c # "_")

\* s without its leading zeros
Significant(s) ==
    LET nonzero == {i \in 1..Len(s) : s[i] # "0"}
    IN  IF nonzero = {} THEN <<>> ELSE SubSeq(s, Minimum(nonzero), Len(s))

RECURSIVE DigitsValue(_, _, _)
DigitsValue(s, lo, hi) ==
    IF lo > hi THEN 0 ELSE 10 * DigitsValue(s, lo, hi - 1) + DigitVal(s[hi])

\* the natural number the digits lo..hi of s spell
RECURSIVE NatOfDigitsRange(_, _, _)
NatOfDigitsRange(s, lo, hi) ==
    IF hi - lo < 4 THEN NatOfInt(DigitsValue(s, lo, hi))
    ELSE LET mid == (lo + hi) \div 2
         IN  NatAdd(NatMul(NatOfDigitsRange(s, lo, mid), Pow10Nat(hi - mid)),
                    NatOfDigitsRange(s, mid + 1, hi))

NatOfDigits(s) == NatOfDigitsRange(s, 1, Len(s))

\* from this many digits on the size of an exponent no longer matters
ExponentDigits == 9

\* the value of an exponent's digits, capped at 10^ExponentDigits
ExponentValue(s) ==
    LET sig == Significant(s)
    IN  IF Len(sig) > ExponentDigits THEN 10^ExponentDigits
        ELSE DigitsValue(sig, 1, Len(sig))

\* decimal magnitudes beyond these are an infinity, or zero, whatever the
\* digits: the largest float is below 10^309 and half the smallest above
\* 10^-325
DecimalCeil == 310

DecimalFloor == -326

\* the float nearest to (-1)^neg * 0.d1d2... * 10^(e10 + number of digits)
\* for digits sig with no leading zero
FloatOfDigits(neg, sig, e10) ==
    IF sig = <<>> THEN FZero(neg)
    ELSE IF Len(sig) + e10 > DecimalCeil THEN FInf(neg)
    ELSE IF Len(sig) + e10 < DecimalFloor THEN FZero(neg)
    ELSE FloatOfDecimal(neg, NatOfDigits(sig), e10)

\* what float() reads in a string s, digits and blanks outside ASCII taken
\* as their ASCII counterparts: blanks around, a sign, then "inf",
\* "infinity" or "nan" in any case, or digits with an optional point and
\* an optional exponent; any other text is an error
ParseNumber(s) ==
    LET Number(neg, ip, fp, e) ==
            [kind |-> "number", neg |-> neg,
             digits |-> Significant(ip \o fp), e10 |-> e - Len(fp)]
        Checked(neg, ip, fp, marked, minus, edigits) ==
            IF /\ ip = <<>> \/ IsDigitPart(ip)
               /\ fp = <<>> \/ IsDigitPart(fp)
               /\ ip # <<>> \/ fp # <<>>
               /\ marked => IsDigitPart(edigits)
            THEN Number(neg, DigitsOf(ip), DigitsOf(fp),
                        IF ~marked THEN 0
                        ELSE (IF minus THEN -1 ELSE 1)
                                 * ExponentValue(DigitsOf(edigits)))
            ELSE [kind |-> "error"]
        Pointed(neg, mant, dot, marked, expo) ==
            Checked(neg, SubSeq(mant, 1, dot - 1),
                    SubSeq(mant, dot + 1, Len(mant)), marked,
                    expo # <<>> /\ expo[1] = "-",
                    IF expo # <<>> /\ expo[1] \in {"+", "-"}
                    THEN Tail(expo) ELSE expo)
        Mantissa(neg, mant, marked, expo) ==
            Pointed(neg, mant,
                    FirstOr({i \in 1..Len(mant) : mant[i] = "."},
                            Len(mant) + 1),
                    marked, expo)
        Marked(neg, body, mark) ==
            Mantissa(neg, SubSeq(body, 1, mark - 1), mark <= Len(body),
                     SubSeq(body, mark + 1, Len(body)))
        Word(neg, body, word) ==
            IF word \in {<<"i", "n", "f">>,
                         <<"i", "n", "f", "i", "n", "i", "t", "y">>}
            THEN [kind |-> "inf", neg |-> neg]
            ELSE IF word = <<"n", "a", "n">> THEN [kind |-> "nan"]
            ELSE Marked(neg, body,
                        FirstOr({i \in 1..Len(body) : body[i] \in {"e", "E"}},
                                Len(body) + 1))
        Body(neg, body) ==
            Word(neg, body, [i \in 1..Len(body) |-> Lower(body[i])])
        Signed(t) ==
            Body(t # <<>> /\ t[1] = "-",
                 IF t # <<>> /\ t[1] \in {"+", "-"} THEN Tail(t) ELSE t)
    IN  Signed(Strip(Transliterate(s)))

\* the float of what float() read, or its ValueError
FloatOfParsed(p) ==
    CASE p.kind = "inf"    -> Return(PyFloat(FInf(p.neg)))
      [] p.kind = "nan"    -> Return(PyFloat(FNan))
      [] p.kind = "error"  -> Raise("ValueError")
      [] p.kind = "number" ->
           Return(PyFloat(FloatOfDigits(p.neg, p.digits, p.e10)))

\* float(s) for a string s
ParseFloat(s) == FloatOfParsed(ParseNumber(s))

\* float(v)
float(v) ==
    CASE v.t = "float"          -> Return(v)
      [] v.t \in {"int", "bool"} ->
           LET Float(f) == IF f.raised THEN f ELSE Return(PyFloat(f.value))
           IN  Float(ToFloat(v))
      [] v.t = "str"            -> ParseFloat(v.s)
      [] OTHER                  -> Raise("TypeError")

----------------------------------------------------------------------------
(* Configuration: token_info (src/portfolio.py lines 22-36)                *)

JSPAX == <<"J", "S", "P", "A", "X">>

JupiterMint ==
    <<"P", "r", "e", "A", "N", "x", "u", "X", "j", "s", "y", "2", "p",
       "v", "i", "s", "W", "W", "M", "N", "B", "6", "Y", "a", "J",
       "N", "z", "r", "7", "6", "8", "1", "w", "J", "J", "r", "2",
       "r", "H", "s", "f", "T", "h">>

TokenInfo ==
    [raw_symbol |-> <<"S", "P", "A", "C", "E", "X">>,
     exchange_holdings |->
        [jarsy   |-> [symbol     |-> JSPAX,
                      cost_basis |-> PyInt(IntOf(840)),
                      quantity   |-> PyFloat(Dec(2489, -3))],
         jupiter |-> [symbol     |-> JupiterMint,
                      cost_basis |-> PyFloat(Dec(33507, -2)),
                      quantity   |-> PyFloat(Dec(4531, -3))]]]

Exchanges == {"jarsy", "jupiter"}

----------------------------------------------------------------------------
(* State                                                                   *)

VARIABLES
    token_info,   \* the module-level holdings table
    environ,      \* os.environ: each setting is <<>> (unset) or <<text>>
    req,          \* req[r]: the invocation handler thread r is serving
    video_title   \* the title the video service holds: <<>> or <<title>>

vars == <<token_info, environ, req, video_title>>

----------------------------------------------------------------------------
(* Price helpers (src/portfolio.py lines 55-94)                            *)
(* An upstream exchange answers with                                       *)
(*   [net |-> "ok" or "timeout", status |-> code, body |-> <<>> or <<v>>]  *)
(* where body is <<>> when the text is not JSON and <<v>> when it decodes  *)
(* to v.                                                                   *)

\* HttpJson without raise_for_status(): the status goes unchecked
HttpJson_NoStatusCheck(resp) ==
    IF resp.net # "ok" THEN Raise("Timeout")
    ELSE IF resp.body = <<>> THEN Raise("JSONDecodeError")
    ELSE Return(resp.body[1])

\* requests.get(...) / scraper.get(...), raise_for_status() and resp.json()
HttpJson(resp) ==
    IF resp.net # "ok" THEN Raise("Timeout")
    ELSE IF resp.status >= 400 /\ resp.status < 600 THEN Raise("HTTPError")
    ELSE IF resp.body = <<>> THEN Raise("JSONDecodeError")
    ELSE Return(resp.body[1])

KeyCode == <<"c", "o", "d", "e">>

KeyData == <<"d", "a", "t", "a">>

KeyCoin == <<"c", "o", "i", "n">>

KeyPrice == <<"p", "r", "i", "c", "e">>

KeyInUsdValue == <<"i", "n", "U", "s", "d", "V", "a", "l", "u", "e">>

\* for x in v: the sequence of values a for loop over v visits
Iterate(v) ==
    CASE v.t = "list" -> Return(v.items)
      [] v.t = "str"  -> Return([i \in 1..Len(v.s) |-> PyStr(<<v.s[i]>>)])
      [] v.t = "dict" -> Return([i \in 1..Len(v.kv) |-> PyStr(v.kv[i][1])])
      [] OTHER        -> Raise("TypeError")

\* lines 65-69: the price of a matching entry
PriceOf(token) ==
    LET Caught(f) ==
            IF f.raised /\ f.error \in {"TypeError", "ValueError"}
            THEN Return(PyNone)
            ELSE f
    IN  Caught(float(DictGet(token, KeyPrice)))

\* JarsyScan going on to the next entry when a matching entry's price does
\* not convert, instead of returning None
JarsyScan_SkipsBadPrice(items, symbol) ==
    LET stops == {i \in 1..Len(items) :
                    \/ items[i].t # "dict"
                    \/ /\ PyEq(DictGet(items[i], KeyCoin), PyStr(symbol))
                       /\ PriceOf(items[i]) # Return(PyNone)}
    IN  IF stops = {} THEN Return(PyNone)
        ELSE LET token == items[Minimum(stops)]
             IN  IF token.t # "dict" THEN Raise("AttributeError")
                 ELSE PriceOf(token)

\* the loop of lines 63-70: it stops at the first entry that is not a dict
\* (token.get fails) or that is for the symbol
JarsyScan(items, symbol) ==
    LET stops == {i \in 1..Len(items) :
                    \/ items[i].t # "dict"
                    \/ PyEq(DictGet(items[i], KeyCoin), PyStr(symbol))}
    IN  IF stops = {} THEN Return(PyNone)
        ELSE LET token == items[Minimum(stops)]
             IN  IF token.t # "dict" THEN Raise("AttributeError")
                 ELSE PriceOf(token)

get_jarsy_token_price(resp) ==
    LET symbol == token_info.exchange_holdings.jarsy.symbol
        got    == HttpJson(resp)
    IN  IF got.raised THEN got
        ELSE LET payload == got.value
             IN  IF payload.t # "dict" THEN Raise("AttributeError")
                 ELSE IF ~PyEq(DictGet(payload, KeyCode), PyInt(IntOf(200)))
                      THEN Raise("RuntimeError")
                 ELSE LET it == Iterate(DictGetDefault(payload, KeyData,
                                                       PyList(<<>>)))
                      IN  IF it.raised THEN it
                          ELSE JarsyScan(it.value, symbol)

get_jupiter_token_price(resp) ==
    LET got == HttpJson(resp)
    IN  IF got.raised THEN got
        ELSE LET data == got.value
             IN  IF data.t # "dict" THEN Raise("AttributeError")
                 ELSE Return(DictGet(data, KeyInUsdValue))

----------------------------------------------------------------------------
(* Portfolio helpers (src/portfolio.py lines 100-149)                      *)

\* calculate_p_l reading the jarsy holding whatever the exchange
calculate_p_l_WrongHolding(exchange, current_price) ==
    LET holdings       == token_info.exchange_holdings["jarsy"]
        purchase_price == holdings.cost_basis
        quantity       == holdings.quantity
        Result(pnl, pnl_percent) ==
            IF pnl.raised THEN pnl
            ELSE IF pnl_percent.raised THEN pnl_percent
            ELSE Return([pnl         |-> pnl.value,
                         pnl_percent |-> pnl_percent.value,
                         buy_price   |-> purchase_price])
    IN  Result(Bind("*", PySub(current_price, purchase_price),
                    Return(quantity)),
               Bind("*",
                    Bind("/", PySub(current_price, purchase_price),
                         Return(purchase_price)),
                    Return(PyInt(IntOf(100)))))

calculate_p_l(exchange, current_price) ==
    LET holdings       == token_info.exchange_holdings[exchange]
        purchase_price == holdings.cost_basis
        quantity       == holdings.quantity
        Result(pnl, pnl_percent) ==
            IF pnl.raised THEN pnl
            ELSE IF pnl_percent.raised THEN pnl_percent
            ELSE Return([pnl         |-> pnl.value,
                         pnl_percent |-> pnl_percent.value,
                         buy_price   |-> purchase_price])
    IN  IF exchange \notin DOMAIN token_info.exchange_holdings
        THEN Raise("KeyError")
        ELSE Result(Bind("*", PySub(current_price, purchase_price),
                         Return(quantity)),
                    Bind("*",
                         Bind("/", PySub(current_price, purchase_price),
                              Return(purchase_price)),
                         Return(PyInt(IntOf(100)))))

\* The statements of get_portfolio_summary, each evaluated in the order
\* written; the local variables are kept as the outcomes of the expressions
\* assigned to them.

\* lines 116-119 and 122-124, given the local variables of lines 110-114;
\* sum(...) starts from the int 0 and adds from left to right
Totals(v) ==
    LET holdings == token_info.exchange_holdings
    IN  [total_pnl |->
            Bind("+",
                 IF v.jarsy_pnl.raised THEN v.jarsy_pnl
                 ELSE Return(v.jarsy_pnl.value.pnl),
                 IF v.jupiter_pnl.raised THEN v.jupiter_pnl
                 ELSE Return(v.jupiter_pnl.value.pnl)),
         total_invested |->
            Bind("+",
                 Bind("+", Return(PyInt(IntOf(0))),
                      PyMul(holdings.jarsy.cost_basis,
                            holdings.jarsy.quantity)),
                 PyMul(holdings.jupiter.cost_basis,
                       holdings.jupiter.quantity)),
         with_jarsy |->
            IF Truthy(v.jarsy_price)
            THEN Bind("+", Return(PyInt(IntOf(0))),
                      PyMul(v.jarsy_price, holdings.jarsy.quantity))
            ELSE Return(PyInt(IntOf(0)))]
            @@ v

\* lines 120, 125-126, 134 and 141, given the local variables before them
Values(v) ==
    LET holdings == token_info.exchange_holdings
    IN  [total_pnl_percent |->
            IF v.total_pnl.raised THEN v.total_pnl
            ELSE IF v.total_invested.raised THEN v.total_invested
            ELSE IF Truthy(v.total_invested.value)
            THEN Bind("*",
                      PyTrueDiv(v.total_pnl.value, v.total_invested.value),
                      Return(PyInt(IntOf(100))))
            ELSE Return(PyInt(IntOf(0))),
         total_portfolio_value |->
            IF Truthy(v.jupiter_price)
            THEN Bind("+", v.with_jarsy,
                      PyMul(v.jupiter_price, holdings.jupiter.quantity))
            ELSE v.with_jarsy,
         jarsy_value |->
            IF Truthy(v.jarsy_price)
            THEN PyMul(v.jarsy_price, holdings.jarsy.quantity)
            ELSE Return(PyNone),
         jupiter_value |->
            IF Truthy(v.jupiter_price)
            THEN PyMul(v.jupiter_price, holdings.jupiter.quantity)
            ELSE Return(PyNone)]
            @@ v

\* lines 128-149: the summary returned, or the first exception raised
Summary(v) ==
    IF v.jarsy_pnl.raised THEN v.jarsy_pnl
    ELSE IF v.jupiter_pnl.raised THEN v.jupiter_pnl
    ELSE IF v.total_pnl.raised THEN v.total_pnl
    ELSE IF v.total_invested.raised THEN v.total_invested
    ELSE IF v.total_pnl_percent.raised THEN v.total_pnl_percent
    ELSE IF v.total_portfolio_value.raised THEN v.total_portfolio_value
    ELSE IF v.jarsy_value.raised THEN v.jarsy_value
    ELSE IF v.jupiter_value.raised THEN v.jupiter_value
    ELSE Return(
          [jarsy |->
             [pnl            |-> v.jarsy_pnl.value.pnl,
              pnl_percent    |-> v.jarsy_pnl.value.pnl_percent,
              buy_price      |-> v.jarsy_pnl.value.buy_price,
              current_price  |-> v.jarsy_price,
              position_value |-> v.jarsy_value.value],
           jupiter |->
             [pnl            |-> v.jupiter_pnl.value.pnl,
              pnl_percent    |-> v.jupiter_pnl.value.pnl_percent,
              buy_price      |-> v.jupiter_pnl.value.buy_price,
              current_price  |-> v.jupiter_price,
              position_value |-> v.jupiter_value.value],
           total |->
             [pnl             |-> v.total_pnl.value,
              pnl_percent     |-> v.total_pnl_percent.value,
              portfolio_value |-> v.total_portfolio_value.value,
              invested        |-> v.total_invested.value]])

\* lines 113-149: the summary built from the two fetched prices
get_portfolio_summary(jarsy_price, jupiter_price) ==
    Summary(Values(Totals(
        [jarsy_price   |-> jarsy_price,
         jupiter_price |-> jupiter_price,
         jarsy_pnl     |-> calculate_p_l("jarsy", jarsy_price),
         jupiter_pnl   |-> calculate_p_l("jupiter", jupiter_price)])))

----------------------------------------------------------------------------
(* Title formatting (src/portfolio.py lines 224-226)                       *)

\* the k decimal digits of the natural number n < 10^k
RECURSIVE ToDigits(_, _)
ToDigits(n, k) ==
    LET h == k \div 2
        Halves(qr) == ToDigits(qr.q, k - h) \o ToDigits(qr.r, h)
    IN  IF n = <<>> THEN [i \in 1..k |-> "0"]
        ELSE IF k <= 4
        THEN [i \in 1..k |-> DigitChar((Limb(n, 1) \div 10^(k - i)) % 10)]
        ELSE Halves(NatDivMod(n, Pow10Nat(h)))

\* the decimal digits of n, at least least of them
DecimalDigits(n, least) ==
    LET Padded(sig) ==
            IF Len(sig) >= least THEN sig
            ELSE [i \in 1..(least - Len(sig)) |-> "0"] \o sig
    IN  Padded(Significant(ToDigits(n, (BitLen(n) * 30103) \div 100000 + 1)))

\* s with a comma before every group of three digits counted from the right
Grouped(s) ==
    LET n == Len(s) + (Len(s) - 1) \div 3
    IN  [j \in 1..n |->
            LET r == n - j
            IN  IF r % 4 = 3 THEN "," ELSE s[Len(s) - (r - r \div 4)]]

\* the number of hundredths nearest to the finite float f in magnitude,
\* ties to even
Hundredths(f) ==
    LET Nearest(q, c) ==
            IF c > 0 \/ (c = 0 /\ IsOdd(q)) THEN NatAdd(q, One) ELSE q
        Cut(scaled, q) ==
            Nearest(q, NatCmp(NatSub(scaled, NatShl(q, -f.e)),
                              NatShl(One, -f.e - 1)))
        Of(scaled) ==
            IF f.e >= 0 THEN NatShl(scaled, f.e)
            ELSE Cut(scaled, NatShr(scaled, -f.e))
    IN  Of(NatMulSmall(f.m, 100))

\* f"{x:,.2f}" for a float x
Format2f(x) ==
    LET Sign == IF x.neg THEN <<"-">> ELSE <<>>
        Parts(digits) ==
            Sign \o Grouped(SubSeq(digits, 1, Len(digits) - 2)) \o <<".">>
                 \o SubSeq(digits, Len(digits) - 1, Len(digits))
    IN  IF x.c = "nan" THEN <<"n", "a", "n">>
        ELSE IF x.c = "inf" THEN Sign \o <<"i", "n", "f">>
        ELSE Parts(DecimalDigits(Hundredths(x), 3))

\* f"How I Made ${amount} with SpaceX Stock..." for total_pnl, a number
TitleFor(total_pnl) ==
    LET Title(x) ==
            IF x.raised THEN x
            ELSE Return(<<"H", "o", "w", " ", "I", " ", "M", "a", "d", "e",
                          " ", "$">>
                        \o Format2f(x.value)
                        \o <<" ", "w", "i", "t", "h", " ", "S", "p", "a",
                             "c", "e", "X", " ", "S", "t", "o", "c", "k",
                             ".", ".", ".">>)
    IN  Title(ToFloat(total_pnl))


----------------------------------------------------------------------------
(* Handler threads                                                         *)

Handlers == {"h1", "h2"}

IdleReq ==
    [kind          |-> "none",   \* "portfolio" or "update_title" once started
     pc            |-> "idle",
     authorization |-> "",       \* request.headers.get("authorization", "")
     jarsy_resp    |-> <<>>,     \* what Exchange A answered this invocation
     jupiter_resp  |-> <<>>,     \* what Exchange B answered this invocation
     jarsy_price   |-> <<>>,     \* outcome of get_jarsy_token_price
     jupiter_price |-> <<>>,     \* outcome of get_jupiter_token_price
     summary       |-> <<>>,
     new_title     |-> <<>>,
     outbound      |-> <<>>,     \* the outbound calls made, in order
     response      |-> <<>>]

Call(name, ok) == [call |-> name, ok |-> ok]

\* HTTPException(status_code, detail)
HTTPException(code, detail) ==
    [status_code |-> code, detail |-> detail, body |-> <<>>]

\* the value a handler returns, before the framework serialises it
Ok200(body) == [status_code |-> 200, detail |-> "", body |-> <<body>>]

\* the thread answers and stops
Respond(r, q, resp) ==
    req' = [req EXCEPT ![r] = [q EXCEPT !.pc = "done", !.response = <<resp>>]]

\* truth value of an os.environ.get(...) result
EnvSet(name) == environ[name] # <<>> /\ environ[name][1] # ""

----------------------------------------------------------------------------
(* Routes (src/portfolio.py lines 201-235), one action per step between    *)
(* outbound calls                                                          *)

\* GET /api/portfolio arrives
StartPortfolio(r) ==
    /\ req[r].pc = "idle"
    /\ req' = [req EXCEPT ![r] = [IdleReq EXCEPT !.kind = "portfolio",
                                                 !.pc = "jarsy"]]
    /\ UNCHANGED <<token_info, environ, video_title>>

\* StartUpdateTitle letting a request without an authorization header through
StartUpdateTitle_MissingHeaderPasses(r, auth_header) ==
    /\ req[r].pc = "idle"
    /\ LET q == [IdleReq EXCEPT !.kind = "update_title",
                                !.authorization = auth_header]
       IN  IF EnvSet("CRON_SECRET")
              /\ auth_header # ""
              /\ auth_header # "Bearer " \o environ["CRON_SECRET"][1]
           THEN Respond(r, q, HTTPException(401, "Unauthorized"))
           ELSE req' = [req EXCEPT ![r] = [q EXCEPT !.pc = "jarsy"]]
    /\ UNCHANGED <<token_info, environ, video_title>>

\* GET /api/update-title arrives: the bearer check of lines 216-220
StartUpdateTitle(r, auth_header) ==
    /\ req[r].pc = "idle"
    /\ LET q == [IdleReq EXCEPT !.kind = "update_title",
                                !.authorization = auth_header]
       IN  IF EnvSet("CRON_SECRET")
              /\ auth_header # "Bearer " \o environ["CRON_SECRET"][1]
           THEN Respond(r, q, HTTPException(401, "Unauthorized"))
           ELSE req' = [req EXCEPT ![r] = [q EXCEPT !.pc = "jarsy"]]
    /\ UNCHANGED <<token_info, environ, video_title>>

\* FetchJarsy keeping the fetched price in one place shared by all threads
FetchJarsy_SharedPrice(r, resp) ==
    /\ req[r].pc = "jarsy"
    /\ \E out \in {get_jarsy_token_price(resp)} :
          LET shared == [o \in Handlers |->
                           IF req[o].pc = "idle" THEN req[o]
                           ELSE [req[o] EXCEPT !.jarsy_price = <<out>>]]
              q == [shared[r] EXCEPT
                       !.jarsy_resp = <<resp>>,
                       !.outbound = Append(@, Call("jarsy", ~out.raised))]
          IN  IF out.raised
              THEN req' = [shared EXCEPT ![r] =
                             [q EXCEPT !.pc = "done",
                                       !.response =
                                          <<HTTPException(500, out.error)>>]]
              ELSE req' = [shared EXCEPT ![r] = [q EXCEPT !.pc = "jupiter"]]
    /\ UNCHANGED <<token_info, environ, video_title>>

\* line 110: the call to Exchange A and what the handler does with it
FetchJarsy(r, resp) ==
    /\ req[r].pc = "jarsy"
    /\ \E out \in {get_jarsy_token_price(resp)} :
          LET q == [req[r] EXCEPT
                       !.jarsy_resp = <<resp>>,
                       !.jarsy_price = <<out>>,
                       !.outbound = Append(@, Call("jarsy", ~out.raised))]
          IN  IF out.raised
              THEN Respond(r, q, HTTPException(500, out.error))
              ELSE req' = [req EXCEPT ![r] = [q EXCEPT !.pc = "jupiter"]]
    /\ UNCHANGED <<token_info, environ, video_title>>

\* lines 205-207 and 223-226: what the handler does with the summary
Summarised(r, q, summary) ==
    IF summary.raised
    THEN Respond(r, q, HTTPException(500, summary.error))
    ELSE IF q.kind = "portfolio"
    THEN Respond(r, [q EXCEPT !.summary = <<summary.value>>],
                 Ok200(summary.value))
    ELSE \E title \in {TitleFor(summary.value.total.pnl)} :
            IF title.raised
            THEN Respond(r, [q EXCEPT !.summary = <<summary.value>>],
                         HTTPException(500, title.error))
            ELSE req' = [req EXCEPT ![r] =
                           [q EXCEPT !.summary = <<summary.value>>,
                                     !.new_title = <<title.value>>,
                                     !.pc = "youtube_client"]]

\* line 111, then lines 113-149 and the handler's use of the summary
FetchJupiter(r, resp) ==
    /\ req[r].pc = "jupiter"
    /\ \E out \in {get_jupiter_token_price(resp)} :
          LET q == [req[r] EXCEPT
                       !.jupiter_resp = <<resp>>,
                       !.jupiter_price = <<out>>,
                       !.outbound = Append(@, Call("jupiter", ~out.raised))]
          IN  IF out.raised
              THEN Respond(r, q, HTTPException(500, out.error))
              ELSE \E summary \in {get_portfolio_summary(
                                       q.jarsy_price[1].value, out.value)} :
                      Summarised(r, q, summary)
    /\ UNCHANGED <<token_info, environ, video_title>>

\* YoutubeClient testing any([...]) where the code tests all([...])
YoutubeClient_AnyCredential(r, refreshed) ==
    /\ req[r].pc = "youtube_client"
    /\ IF ~(\/ EnvSet("YOUTUBE_CLIENT_ID")
            \/ EnvSet("YOUTUBE_CLIENT_SECRET")
            \/ EnvSet("YOUTUBE_REFRESH_TOKEN"))
       THEN Respond(r, req[r], HTTPException(500, "Missing YouTube credentials"))
       ELSE LET q == [req[r] EXCEPT !.outbound = Append(@, Call("refresh", refreshed))]
            IN  IF ~refreshed
                THEN Respond(r, q, HTTPException(500, "RefreshError"))
                ELSE req' = [req EXCEPT ![r] = [q EXCEPT !.pc = "videos_list"]]
    /\ UNCHANGED <<token_info, environ, video_title>>

\* get_youtube_client (lines 155-175); refreshed: did the token refresh work
YoutubeClient(r, refreshed) ==
    /\ req[r].pc = "youtube_client"
    /\ IF ~(/\ EnvSet("YOUTUBE_CLIENT_ID")
            /\ EnvSet("YOUTUBE_CLIENT_SECRET")
            /\ EnvSet("YOUTUBE_REFRESH_TOKEN"))
       THEN Respond(r, req[r], HTTPException(500, "Missing YouTube credentials"))
       ELSE LET q == [req[r] EXCEPT !.outbound = Append(@, Call("refresh", refreshed))]
            IN  IF ~refreshed
                THEN Respond(r, q, HTTPException(500, "RefreshError"))
                ELSE req' = [req EXCEPT ![r] = [q EXCEPT !.pc = "videos_list"]]
    /\ UNCHANGED <<token_info, environ, video_title>>

\* lines 182-188; listed is "error", "empty" (no items) or "found"
VideosList(r, listed) ==
    /\ req[r].pc = "videos_list"
    /\ LET q == [req[r] EXCEPT !.outbound = Append(@, Call("list", listed # "error"))]
       IN  IF listed = "error"
           THEN Respond(r, q, HTTPException(500, "HttpError"))
           ELSE IF listed = "empty"
           THEN Respond(r, q, HTTPException(500, "Video not found"))
           ELSE req' = [req EXCEPT ![r] = [q EXCEPT !.pc = "videos_update"]]
    /\ UNCHANGED <<token_info, environ, video_title>>

\* VideosUpdate answering 200 whether or not the video service accepted
VideosUpdate_FailureIgnored(r, updated, now) ==
    /\ req[r].pc = "videos_update"
    /\ LET q == [req[r] EXCEPT !.outbound = Append(@, Call("update", updated))]
       IN  /\ Respond(r, q, Ok200([status     |-> "ok",
                                   new_title  |-> q.new_title[1],
                                   portfolio  |-> q.summary[1],
                                   updated_at |-> now]))
           /\ video_title' = IF updated THEN q.new_title ELSE video_title
    /\ UNCHANGED <<token_info, environ>>

\* lines 190-195 and 228-233; updated: did the video service accept
VideosUpdate(r, updated, now) ==
    /\ req[r].pc = "videos_update"
    /\ LET q == [req[r] EXCEPT !.outbound = Append(@, Call("update", updated))]
       IN  IF ~updated
           THEN /\ Respond(r, q, HTTPException(500, "HttpError"))
                /\ UNCHANGED video_title
           ELSE /\ Respond(r, q, Ok200([status     |-> "ok",
                                        new_title  |-> q.new_title[1],
                                        portfolio  |-> q.summary[1],
                                        updated_at |-> now]))
                /\ video_title' = q.new_title
    /\ UNCHANGED <<token_info, environ>>

\* the response is delivered; the thread is free for the next invocation
Finish(r) ==
    /\ req[r].pc = "done"
    /\ req' = [req EXCEPT ![r] = IdleReq]
    /\ UNCHANGED <<token_info, environ, video_title>>

----------------------------------------------------------------------------
(* Inputs                                                                  *)

Absent == <<>>

Present(v) == <<v>>

\* the int n and the float written n * 10^e10 in a JSON text
N(n) == PyInt(IntOf(n))

F(n, e10) == PyFloat(Dec(n, e10))

\* an int no float can hold
Huge == PyInt(Integer(FALSE, Pow10Nat(400)))

HttpOk(v) == [net |-> "ok", status |-> 200, body |-> <<v>>]

HttpStatus(code, v) == [net |-> "ok", status |-> code, body |-> <<v>>]

HttpText(code) == [net |-> "ok", status |-> code, body |-> <<>>]

HttpTimeout == [net |-> "timeout", status |-> 0, body |-> <<>>]

Entry(key, value) ==
    IF value = Absent THEN <<>> ELSE << <<key, value[1]>> >>

Token(coin, price) == PyDict(Entry(KeyCoin, coin) \o Entry(KeyPrice, price))

TokenList(code, data) == PyDict(Entry(KeyCode, code) \o Entry(KeyData, data))

Quote(value) == PyDict(Entry(KeyInUsdValue, value))

OtherCoin == <<"J", "X">>

KeySymbol == <<"s", "y", "m", "b", "o", "l">>

\* the longest token list Exchange A is taken to answer with
MaxTokens == 2

\* price fields: missing, ints, an int beyond every float, numeric strings
\* (plain, padded and signed, with an exponent, padded with a tab and a
\* newline, in digits outside ASCII, "nan"), a string that is no number and
\* a boolean
TokenPrices ==
    {Absent,
     Present(N(1000)),
     Present(N(0)),
     Present(Huge),
     Present(PyStr(<<"1", "0", "0", "0", ".", "5">>)),
     Present(PyStr(<<" ", "-", "4", ".", "1", "0", " ">>)),
     Present(PyStr(<<"1", "e", "3">>)),
     Present(PyStr(<<"\t", "7", ".", "5", "\n">>)),
     Present(PyStr(<<"Zs", "Nd7", ".", "Nd5">>)),
     Present(PyStr(<<"n", "a", "n">>)),
     Present(PyStr(<<"x">>)),
     Present(PyBool(TRUE))}

\* what a token list may hold: entries for the symbol, entries for another
\* coin, an entry with the price before the coin, entries without a coin,
\* a null and a bare string
TokenEntries ==
    {Token(Present(PyStr(JSPAX)), p) : p \in TokenPrices}
        \cup {Token(Present(PyStr(OtherCoin)), Present(N(7))),
              Token(Present(PyStr(OtherCoin)), Present(PyStr(<<"x">>))),
              PyDict(<< <<KeyPrice, N(1000)>>, <<KeyCoin, PyStr(JSPAX)>> >>),
              Token(Absent, Present(N(1000))),
              PyDict(<< <<KeySymbol, PyStr(JSPAX)>> >>),
              PyNone,
              PyStr(JSPAX)}

TokenLists ==
    UNION {[1..n -> TokenEntries] : n \in 0..MaxTokens}

TokenData ==
    {Absent, Present(PyNone), Present(N(7)), Present(F(75, -1)),
     Present(PyBool(TRUE)),
     Present(PyStr(<<>>)), Present(PyStr(JSPAX)),
     Present(PyDict(<<>>)),
     Present(PyDict(<< <<KeySymbol, PyStr(JSPAX)>> >>)),
     Present(Token(Present(PyStr(JSPAX)), Present(N(1000))))}
        \cup {Present(PyList(l)) : l \in TokenLists}

GoodList == PyList(<<Token(Present(PyStr(JSPAX)), Present(N(1000)))>>)

TokenCodes ==
    {Absent, Present(N(500)), Present(PyStr(<<"2", "0", "0">>)),
     Present(PyNone), Present(PyBool(TRUE)), Present(F(200, 0))}

\* every answer of Exchange A the fetcher is examined on
JarsyResponses ==
    {HttpTimeout, HttpText(200), HttpText(502),
     HttpStatus(500, TokenList(Present(N(200)), Present(GoodList))),
     HttpStatus(404, TokenList(Present(N(200)), Present(GoodList))),
     HttpOk(PyNone), HttpOk(GoodList), HttpOk(PyStr(JSPAX))}
        \cup {HttpOk(TokenList(c, d)) :
                c \in TokenCodes, d \in {Absent, Present(GoodList)}}
        \cup {HttpOk(TokenList(Present(N(200)), d)) : d \in TokenData}

\* the answers of Exchange A the two concurrent handlers are run against
JarsySamples ==
    {HttpTimeout,
     HttpStatus(500, TokenList(Present(N(200)), Present(GoodList))),
     HttpOk(TokenList(Present(N(200)), Absent)),
     HttpOk(TokenList(Present(N(200)), Present(PyList(
        <<Token(Present(PyStr(OtherCoin)), Present(N(7))),
          Token(Present(PyStr(JSPAX)),
                Present(PyStr(<<"1", "0", "0", "0", ".", "5">>)))>>))))}

\* the answers of Exchange A with a one-entry token list, one per price
JarsyQuotes ==
    {HttpTimeout, HttpOk(TokenList(Present(N(200)), Absent))}
        \cup {HttpOk(TokenList(Present(N(200)), Present(PyList(
                <<Token(Present(PyStr(JSPAX)), p)>>)))) : p \in TokenPrices}

\* the answers of Exchange B the two concurrent handlers are run against
JupiterSamples ==
    {HttpTimeout,
     HttpText(200),
     HttpOk(Quote(Absent)),
     HttpOk(Quote(Present(N(400)))),
     HttpOk(Quote(Present(N(0))))}

\* every answer of Exchange B the aggregator is examined on
JupiterResponses ==
    JupiterSamples
        \cup {HttpStatus(500, Quote(Present(N(400)))),
              HttpOk(PyNone), HttpOk(PyList(<<>>)),
              HttpOk(Quote(Present(PyNone))),
              HttpOk(Quote(Present(PyStr(<<"4", "0", "0">>)))),
              HttpOk(Quote(Present(F(40025, -2)))),
              HttpOk(Quote(Present(PyBool(TRUE)))),
              HttpOk(Quote(Present(Huge))),
              HttpOk(PyDict(<< <<KeySymbol, PyStr(JupiterMint)>>,
                               <<KeyInUsdValue, F(40025, -2)>> >>))}

Secret == "s3cret"

AuthHeaders == {"", "Bearer " \o Secret, "Bearer wrong"}

Settings(secret, id, client_secret, refresh_token) ==
    [CRON_SECRET           |-> secret,
     YOUTUBE_CLIENT_ID     |-> id,
     YOUTUBE_CLIENT_SECRET |-> client_secret,
     YOUTUBE_REFRESH_TOKEN |-> refresh_token]

\* the deployments examined: with the cron secret set, every way one OAuth
\* setting can be missing; without it (unset or empty), all settings present
\* and one missing
Environs ==
    {Settings(<<Secret>>, <<"set">>, <<"set">>, <<"set">>),
     Settings(<<Secret>>, <<>>,      <<"set">>, <<"set">>),
     Settings(<<Secret>>, <<"set">>, <<"">>,    <<"set">>),
     Settings(<<Secret>>, <<"set">>, <<"set">>, <<>>),
     Settings(<<>>,       <<"set">>, <<"set">>, <<"set">>),
     Settings(<<"">>,     <<>>,      <<"set">>, <<"set">>)}

Times == {"2026-01-01 00:00:00"}

----------------------------------------------------------------------------
(* Specifications                                                          *)

Init ==
    /\ token_info = TokenInfo
    /\ environ \in Environs
    /\ req = [r \in Handlers |-> IdleReq]
    /\ video_title = <<>>

Next ==
    \E r \in Handlers :
        \/ StartPortfolio(r)
        \/ \E h \in AuthHeaders : StartUpdateTitle(r, h)
        \/ \E resp \in JarsySamples : FetchJarsy(r, resp)
        \/ \E resp \in JupiterSamples : FetchJupiter(r, resp)
        \/ \E ok \in BOOLEAN : YoutubeClient(r, ok)
        \/ \E l \in {"error", "empty", "found"} : VideosList(r, l)
        \/ \E ok \in BOOLEAN, now \in Times : VideosUpdate(r, ok, now)
        \/ Finish(r)

Spec == Init /\ [][Next]_vars

\* one thread serving /api/portfolio
InitFetch ==
    /\ token_info = TokenInfo
    /\ environ = Settings(<<>>, <<"set">>, <<"set">>, <<"set">>)
    /\ req = [r \in Handlers |-> IdleReq]
    /\ video_title = <<>>

\* ... against every modelled answer of Exchange A
NextFetch ==
    \/ StartPortfolio("h1")
    \/ \E resp \in JarsyResponses : FetchJarsy("h1", resp)
    \/ \E resp \in {HttpTimeout, HttpOk(Quote(Present(N(400))))} :
          FetchJupiter("h1", resp)
    \/ Finish("h1")

SpecFetch == InitFetch /\ [][NextFetch]_vars

\* ... against every modelled pair of prices
NextSummary ==
    \/ StartPortfolio("h1")
    \/ \E resp \in JarsyQuotes : FetchJarsy("h1", resp)
    \/ \E resp \in JupiterResponses : FetchJupiter("h1", resp)
    \/ Finish("h1")

SpecSummary == InitFetch /\ [][NextSummary]_vars

----------------------------------------------------------------------------
(* Vocabulary of the properties                                            *)

\* how many outbound calls named name handler r has made this invocation
Calls(r, name) ==
    Cardinality({i \in 1..Len(req[r].outbound) : req[r].outbound[i].call = name})

Answered(r, code) ==
    req[r].response # <<>> /\ req[r].response[1].status_code = code

\* an upstream answer that is a failure of the service itself: a timeout, a
\* non-success status, or a body that is not a JSON object
HardFailure(resp) ==
    \/ resp.net # "ok"
    \/ resp.status \notin 200..299
    \/ resp.body = <<>>
    \/ resp.body[1].t # "dict"

Got(r, ex) == IF ex = "jarsy" THEN req[r].jarsy_resp ELSE req[r].jupiter_resp

\* the fetcher of ex was called by r and returned (did not raise)
Returned(r, ex) ==
    LET o == IF ex = "jarsy" THEN req[r].jarsy_price ELSE req[r].jupiter_price
    IN  o # <<>> /\ ~o[1].raised

Price(r, ex) ==
    IF ex = "jarsy" THEN req[r].jarsy_price[1].value
    ELSE req[r].jupiter_price[1].value

\* the holdings as written in the source: 840 and 2.489, 335.07 and 4.531
CostBasis(ex) == IF ex = "jarsy" THEN N(840) ELSE F(33507, -2)

Quantity(ex) == IF ex = "jarsy" THEN F(2489, -3) ELSE F(4531, -3)

\* the float a small int, a bool or a float stands for in float arithmetic
FloatOf(v) ==
    CASE v.t = "float" -> v.f
      [] v.t = "int"   -> FloatOfInt(v.i)
      [] v.t = "bool"  -> Dec(IF v.b THEN 1 ELSE 0, 0)

\* the float a decimal literal denotes
Literal(s) == ParseFloat(s).value.f

ZeroInt == N(0)

\* the value a position field holds, absent counted as 0
ValueOrZero(v) == IF v = PyNone THEN ZeroInt ELSE v

\* r is a finished /api/portfolio invocation both of whose fetchers returned
\* a number or "no price", at least one of them "no price"
SomePriceAbsent(r) ==
    /\ req[r].kind = "portfolio"
    /\ req[r].pc = "done"
    /\ \A ex \in Exchanges :
          Returned(r, ex) /\ Price(r, ex).t \in {"null", "int", "float"}
    /\ \E ex \in Exchanges : Price(r, ex) = PyNone

----------------------------------------------------------------------------
(* C1, C2: a price that is absent                                          *)

\* C1: when a fetcher returns "no price" and neither hard-fails, the
\* /api/portfolio invocation answers 200 with a summary in which that position
\* has current_price and position_value absent, pnl = 0, pnl_percent = 0 and
\* buy_price = cost_basis.  (The code answers 500 instead.)
C1_AbsentPriceDegrades ==
    \A r \in Handlers :
        SomePriceAbsent(r)
        => /\ Answered(r, 200)
           /\ \A ex \in Exchanges :
                Price(r, ex) = PyNone =>
                    LET pos == req[r].response[1].body[1][ex]
                    IN  /\ pos.current_price = PyNone
                        /\ pos.position_value = PyNone
                        /\ PyEq(pos.pnl, ZeroInt)
                        /\ PyEq(pos.pnl_percent, ZeroInt)
                        /\ pos.buy_price = CostBasis(ex)

\* C2: with both prices absent the summary is returned with total.pnl = 0,
\* total.pnl_percent = 0 and total.portfolio_value = 0; with only one price
\* absent the totals count the other position alone.  (The code returns no
\* summary in either case.)
C2_AbsentPricesTotals ==
    \A r \in Handlers :
        SomePriceAbsent(r)
        => /\ Answered(r, 200)
           /\ LET body == req[r].response[1].body[1]
                  defined == {ex \in Exchanges : Price(r, ex) # PyNone}
              IN  /\ defined = {} =>
                        /\ PyEq(body.total.pnl, ZeroInt)
                        /\ PyEq(body.total.pnl_percent, ZeroInt)
                        /\ PyEq(body.total.portfolio_value, ZeroInt)
                  /\ \A ex \in defined :
                        /\ PyEq(body.total.pnl, body[ex].pnl)
                        /\ PyEq(body.total.portfolio_value,
                                PyFloat(FMul(FloatOf(Price(r, ex)),
                                             Quantity(ex).f)))

----------------------------------------------------------------------------
(* C3: hard failures of a fetcher                                          *)

\* C3: if a fetcher that was called met a hard failure (timeout, non-success
\* status, malformed body) the invocation has ended with a 500 that carries a
\* diagnostic and no summary; a 200 is answered only when both fetchers were
\* called and neither met a hard failure.
C3_HardFailureIs500 ==
    \A r \in Handlers :
        /\ (\E ex \in Exchanges : Got(r, ex) # <<>> /\ HardFailure(Got(r, ex)[1]))
            => /\ req[r].pc = "done"
               /\ Answered(r, 500)
               /\ req[r].response[1].body = <<>>
               /\ req[r].response[1].detail # ""
               /\ req[r].summary = <<>>
        /\ Answered(r, 200)
            => \A ex \in Exchanges :
                  Got(r, ex) # <<>> /\ ~HardFailure(Got(r, ex)[1])

\* reached: /api/portfolio answered 500 after Exchange A returned a price and
\* Exchange B hard-failed
C3_Witness ==
    \E r \in Handlers :
        /\ req[r].kind = "portfolio"
        /\ Returned(r, "jarsy") /\ Price(r, "jarsy").t = "float"
        /\ req[r].jupiter_resp # <<>> /\ HardFailure(req[r].jupiter_resp[1])
        /\ Answered(r, 500)

----------------------------------------------------------------------------
(* C4: the bearer check of /api/update-title                               *)

SecretConfigured == environ["CRON_SECRET"] \notin {<<>>, <<"">>}

\* C4: with a secret configured, an /api/update-title invocation whose
\* authorization header is not exactly "Bearer <secret>" is answered 401 and
\* makes no outbound call at all; with no secret configured no invocation is
\* answered 401 and the handler goes on to the price fetch.
C4_UnauthorizedNoSideEffect ==
    \A r \in Handlers :
        req[r].kind = "update_title" =>
            /\ ( /\ SecretConfigured
                 /\ req[r].authorization # "Bearer " \o environ["CRON_SECRET"][1] )
                => /\ req[r].pc = "done"
                   /\ Answered(r, 401)
                   /\ req[r].outbound = <<>>
                   /\ req[r].summary = <<>>
            /\ ( \/ ~SecretConfigured
                 \/ req[r].authorization = "Bearer " \o environ["CRON_SECRET"][1] )
                => /\ ~Answered(r, 401)
                   /\ req[r].pc = "jarsy" \/ Calls(r, "jarsy") = 1

\* reached: a wrong bearer token was answered 401
C4_Witness ==
    \E r \in Handlers :
        /\ req[r].kind = "update_title"
        /\ SecretConfigured
        /\ req[r].authorization = "Bearer wrong"
        /\ Answered(r, 401)

----------------------------------------------------------------------------
(* C5: missing OAuth settings                                              *)

YoutubeConfigured ==
    \A name \in {"YOUTUBE_CLIENT_ID", "YOUTUBE_CLIENT_SECRET",
                 "YOUTUBE_REFRESH_TOKEN"} :
        environ[name] \notin {<<>>, <<"">>}

MisconfigurationRaised(r) ==
    /\ req[r].kind = "update_title"
    /\ Answered(r, 500)
    /\ req[r].response[1].detail = "Missing YouTube credentials"

\* C5 as claimed: no outbound request, to either exchange or to the video
\* service, precedes the credential-misconfiguration error.
C5_NoOutboundBeforeMisconfiguration ==
    \A r \in Handlers : MisconfigurationRaised(r) => req[r].outbound = <<>>

\* C5 as amended: with an OAuth setting missing no invocation ever calls the
\* video service (refresh, list, update) or is answered 200 by
\* /api/update-title, and the title is never changed; the misconfiguration
\* error is raised only after both exchanges were called once and the
\* aggregation succeeded.
C5_NoVideoCallWhenMisconfigured ==
    ~YoutubeConfigured =>
        /\ video_title = <<>>
        /\ \A r \in Handlers :
            /\ \A i \in 1..Len(req[r].outbound) :
                  req[r].outbound[i].call \in {"jarsy", "jupiter"}
            /\ req[r].kind = "update_title" => ~Answered(r, 200)
            /\ (req[r].kind = "update_title" /\ req[r].summary # <<>>)
                  => req[r].pc = "youtube_client" \/ MisconfigurationRaised(r)
            /\ MisconfigurationRaised(r)
                  => /\ req[r].outbound
                          = <<Call("jarsy", TRUE), Call("jupiter", TRUE)>>
                     /\ req[r].summary # <<>>

\* reached: an authorized invocation ended with the misconfiguration error
C5_Witness ==
    \E r \in Handlers :
        /\ MisconfigurationRaised(r)
        /\ SecretConfigured
        /\ req[r].authorization = "Bearer " \o environ["CRON_SECRET"][1]

----------------------------------------------------------------------------
(* C6: the arithmetic of a returned summary                                *)

Hundred == Dec(100, 0)

\* 840 * 2.489 + 335.07 * 4.531 in float arithmetic
Invested ==
    FAdd(FMul(FloatOf(CostBasis("jarsy")), Quantity("jarsy").f),
         FMul(FloatOf(CostBasis("jupiter")), Quantity("jupiter").f))

\* C6: in every summary returned, each position with price P, cost basis C and
\* quantity Q has pnl = (P - C) * Q, pnl_percent = (P - C) / C * 100 and
\* buy_price = C; total.pnl is the sum of the two position pnl values,
\* total.pnl_percent = total.pnl / invested * 100, and invested is
\* 840 * 2.489 + 335.07 * 4.531, the float 3608.96217.  The operations are
\* those of the float type, taken in the order written, and their results
\* are reported as they are, unrounded.
C6_ExactProfitAndLoss ==
    \A r \in Handlers :
        (req[r].kind = "portfolio" /\ Answered(r, 200)) =>
            LET body == req[r].response[1].body[1]
            IN  /\ \A ex \in Exchanges :
                      LET P == FloatOf(Price(r, ex))
                          C == FloatOf(CostBasis(ex))
                          Q == Quantity(ex).f
                      IN  /\ body[ex].pnl = PyFloat(FMul(FSub(P, C), Q))
                          /\ body[ex].pnl_percent
                                = PyFloat(FMul(FDiv(FSub(P, C), C), Hundred))
                          /\ body[ex].buy_price = CostBasis(ex)
                          /\ body[ex].current_price = Price(r, ex)
                /\ body.total.pnl
                      = PyFloat(FAdd(body.jarsy.pnl.f, body.jupiter.pnl.f))
                /\ body.total.pnl_percent
                      = PyFloat(FMul(FDiv(body.total.pnl.f,
                                          body.total.invested.f), Hundred))
                /\ body.total.invested = PyFloat(Invested)
                /\ body.total.invested = F(360896217, -5)

\* reached: the summary for the prices 1000.5 and 400.25, with the values
\* the float operations give
C6_Witness ==
    \E r \in Handlers :
        /\ req[r].kind = "portfolio" /\ Answered(r, 200)
        /\ Price(r, "jarsy") = F(10005, -1)
        /\ Price(r, "jupiter") = F(40025, -2)
        /\ LET body == req[r].response[1].body[1]
           IN  /\ body.jarsy.pnl.f
                    = Literal(<<"3", "9", "9", ".", "4", "8", "4", "4", "9",
                                "9", "9", "9", "9", "9", "9", "9", "9", "7">>)
               /\ body.jarsy.pnl_percent.f
                    = Literal(<<"1", "9", ".", "1", "0", "7", "1", "4", "2",
                                "8", "5", "7", "1", "4", "2", "8", "5", "4">>)
               /\ body.jupiter.pnl.f = Dec(29533058, -5)
               /\ body.total.pnl.f = Dec(69481508, -5)
               /\ body.total.pnl_percent.f
                    = Literal(<<"1", "9", ".", "2", "5", "2", "4", "8", "9",
                                "9", "7", "5", "5", "3", "2", "2", "2">>)

----------------------------------------------------------------------------
(* C7: the title update of /api/update-title                               *)

AllSucceeded ==
    <<Call("jarsy", TRUE), Call("jupiter", TRUE), Call("refresh", TRUE),
      Call("list", TRUE), Call("update", TRUE)>>

\* C7: an /api/update-title invocation calls the video update at most once and
\* only after its own aggregation produced a summary; a hard failure of a price
\* fetch ends it with 500 and no update call; a failed update ends it with 500;
\* 200 is answered only after every call succeeded, with exactly the fields
\* status, new_title, portfolio and updated_at.
C7_TitleUpdateOnceAfterSummary ==
    \A r \in Handlers :
        req[r].kind = "update_title" =>
            /\ Calls(r, "update") <= 1
            /\ Calls(r, "update") = 1
                  => /\ req[r].summary # <<>>
                     /\ SubSeq(req[r].outbound, 1, 4) = SubSeq(AllSucceeded, 1, 4)
            /\ (\E ex \in Exchanges : Got(r, ex) # <<>> /\ HardFailure(Got(r, ex)[1]))
                  => Answered(r, 500) /\ Calls(r, "update") = 0
            /\ (\E i \in 1..Len(req[r].outbound) :
                    req[r].outbound[i] = Call("update", FALSE))
                  => Answered(r, 500)
            /\ Answered(r, 200)
                  => LET body == req[r].response[1].body[1]
                     IN  /\ req[r].outbound = AllSucceeded
                         /\ DOMAIN body
                               = {"status", "new_title", "portfolio", "updated_at"}
                         /\ body.status = "ok"
                         /\ body.portfolio = req[r].summary[1]
                         /\ body.new_title = req[r].new_title[1]
                         /\ video_title # <<>>

\* reached: two invocations in flight at once were each answered 200 after
\* their one update call succeeded, with different titles, and the video
\* service holds the title one of them built
C7_Witness ==
    \E r, o \in Handlers :
        /\ req[r].kind = "update_title" /\ Answered(r, 200)
        /\ Calls(r, "update") = 1
        /\ video_title = req[r].new_title
        /\ req[o].kind = "update_title" /\ Answered(o, 200)
        /\ Calls(o, "update") = 1
        /\ req[o].new_title # req[r].new_title

----------------------------------------------------------------------------
(* C8: what the Exchange A fetcher makes of an answer                      *)

\* the value under key in the JSON object v, if any
Field(v, key) ==
    LET hits == {i \in 1..Len(v.kv) : v.kv[i][1] = key}
    IN  IF hits = {} THEN Absent ELSE Present(v.kv[Minimum(hits)][2])

\* the positions of a token list holding an entry for the holding's symbol
Matches(items) ==
    {i \in 1..Len(items) :
        items[i].t = "dict" /\ Field(items[i], KeyCoin) = Present(PyStr(JSPAX))}

Malformed(items) == {i \in 1..Len(items) : items[i].t # "dict"}

First(S) == CHOOSE i \in S : \A j \in S : i <= j

\* the top level is broken: status, body or code (200 and 200.0 are the
\* codes equal to 200)
BrokenTopLevel(resp) ==
    \/ HardFailure(resp)
    \/ Field(resp.body[1], KeyCode) \notin {Present(N(200)), Present(F(200, 0))}

TokenListOf(resp) == Field(resp.body[1], KeyData)

\* what float() makes of the price field of the entry for the symbol:
\* a float, "no price", or an error for an int no float can hold
Converted(price) ==
    CASE price = Absent                -> Return(PyNone)
      [] price = Present(N(1000))      -> Return(F(1000, 0))
      [] price = Present(N(0))         -> Return(PyFloat(FZero(FALSE)))
      [] price = Present(Huge)         -> Raise("OverflowError")
      [] price = Present(PyBool(TRUE)) -> Return(F(1, 0))
      [] price = Present(PyStr(<<"1", "0", "0", "0", ".", "5">>))
                                       -> Return(F(10005, -1))
      [] price = Present(PyStr(<<" ", "-", "4", ".", "1", "0", " ">>))
                                       -> Return(F(-41, -1))
      [] price = Present(PyStr(<<"1", "e", "3">>))
                                       -> Return(F(1000, 0))
      [] price = Present(PyStr(<<"\t", "7", ".", "5", "\n">>))
                                       -> Return(F(75, -1))
      [] price = Present(PyStr(<<"Zs", "Nd7", ".", "Nd5">>))
                                       -> Return(F(75, -1))
      [] price = Present(PyStr(<<"n", "a", "n">>))
                                       -> Return(PyFloat(FNan))
      [] price = Present(PyStr(<<"x">>)) -> Return(PyNone)

\* C8 as claimed: a non-success status, an unexpected code or the lack of a
\* well-formed token list is a hard failure, never "no price".
C8_MalformedIsHardFailure ==
    \A r \in Handlers :
        req[r].jarsy_resp # <<>> =>
            LET resp == req[r].jarsy_resp[1]
                out  == req[r].jarsy_price[1]
            IN  ( \/ BrokenTopLevel(resp)
                  \/ TokenListOf(resp) = Absent
                  \/ TokenListOf(resp)[1].t # "list"
                  \/ Malformed(TokenListOf(resp)[1].items) # {} )
                => out.raised

\* C8 as amended: the fetcher raises exactly when the top level is broken, the
\* token list is present but cannot be scanned (null, a number, a boolean, a
\* non-empty string or object), a non-object entry comes before the first
\* entry for the symbol, or that entry's price is an int too large for a
\* float; otherwise it returns the first matching entry's price when float()
\* converts it (a number, a numeric string, a boolean) and "no price" when
\* there is no token list, no matching entry, or that price is missing, null
\* or not numeric.
C8_FetcherClassification ==
    \A r \in Handlers :
        req[r].jarsy_resp # <<>> =>
            LET resp == req[r].jarsy_resp[1]
                out  == req[r].jarsy_price[1]
                data == TokenListOf(resp)
                items == IF data # Absent /\ data[1].t = "list"
                         THEN data[1].items ELSE <<>>
                unscannable ==
                    /\ data # Absent
                    /\ data[1].t # "list"
                    /\ data[1] \notin {PyStr(<<>>), PyDict(<<>>)}
                badFirst ==
                    /\ Malformed(items) # {}
                    /\ \/ Matches(items) = {}
                       \/ First(Malformed(items)) < First(Matches(items))
            IN  IF BrokenTopLevel(resp) \/ unscannable \/ badFirst
                THEN out.raised
                ELSE IF Matches(items) = {}
                THEN out = Return(PyNone)
                ELSE out = Converted(Field(items[First(Matches(items))],
                                           KeyPrice))

\* reached: code 200 without a token list was classified "no price", and so
\* the handler went on to Exchange B
C8_Witness ==
    \E r \in Handlers :
        /\ req[r].jarsy_resp = <<HttpOk(TokenList(Present(N(200)), Absent))>>
        /\ req[r].jarsy_price = <<Return(PyNone)>>
        /\ req[r].pc = "jupiter"

----------------------------------------------------------------------------
(* C9: nothing is shared between invocations                               *)

\* the summary the aggregator builds from the two answers the invocation q
\* itself received
OwnSummary(q) ==
    IF q.jarsy_resp = <<>> \/ q.jupiter_resp = <<>>
    THEN Raise("not fetched")
    ELSE LET a == get_jarsy_token_price(q.jarsy_resp[1])
             b == get_jupiter_token_price(q.jupiter_resp[1])
         IN  IF a.raised THEN a
             ELSE IF b.raised THEN b
             ELSE get_portfolio_summary(a.value, b.value)

\* what holds of handler r in every state
IsolatedState(r) ==
    /\ Calls(r, "jarsy") <= 1 /\ Calls(r, "jupiter") <= 1
    /\ req[r].pc = "idle" => req[r] = IdleReq
    /\ req[r].jarsy_price # <<>>
          => req[r].jarsy_resp # <<>> /\ Calls(r, "jarsy") = 1
    /\ req[r].jupiter_price # <<>>
          => req[r].jupiter_resp # <<>> /\ Calls(r, "jupiter") = 1
    /\ Answered(r, 200)
          => /\ req[r].summary # <<>>
             /\ LET body == req[r].response[1].body[1]
                IN  IF req[r].kind = "portfolio"
                    THEN body = req[r].summary[1]
                    ELSE body.portfolio = req[r].summary[1]

\* what holds of an invocation in every step that takes it from p to q: an
\* answer, a price or a summary it holds is set once, the price is what the
\* fetcher makes of the answer it received and the summary what the
\* aggregator makes of its two answers
IsolatedStep(p, q) ==
    /\ q.jarsy_resp # p.jarsy_resp => q = IdleReq \/ p.jarsy_resp = <<>>
    /\ q.jupiter_resp # p.jupiter_resp => q = IdleReq \/ p.jupiter_resp = <<>>
    /\ q.jarsy_price # p.jarsy_price
          => \/ q = IdleReq
             \/ /\ p.jarsy_price = <<>>
                /\ q.jarsy_resp # <<>>
                /\ q.jarsy_price = <<get_jarsy_token_price(q.jarsy_resp[1])>>
    /\ q.jupiter_price # p.jupiter_price
          => \/ q = IdleReq
             \/ /\ p.jupiter_price = <<>>
                /\ q.jupiter_resp # <<>>
                /\ q.jupiter_price
                      = <<get_jupiter_token_price(q.jupiter_resp[1])>>
    /\ q.summary # p.summary
          => \/ q = IdleReq
             \/ /\ p.summary = <<>>
                /\ Return(q.summary[1]) = OwnSummary(q)

\* C9: the holdings table never changes; an invocation calls each fetcher at
\* most once; the price it holds is the one its own call fetched and a summary
\* it returns is the one built from the two answers that same invocation
\* received, fixed from the step that builds it to the end of the invocation;
\* and a thread that has finished keeps nothing.
C9_InvocationsAreIsolated ==
    /\ [](token_info = TokenInfo /\ \A r \in Handlers : IsolatedState(r))
    /\ [][\A r \in Handlers :
              \A q \in {req'[r]} : IsolatedStep(req[r], q)]_vars

\* reached: two invocations in flight at once returned different summaries
C9_Witness ==
    \E r, o \in Handlers :
        /\ Answered(r, 200) /\ Answered(o, 200)
        /\ req[r].summary # req[o].summary
        /\ req[r].kind = "update_title" /\ req[o].kind = "portfolio"

----------------------------------------------------------------------------
(* C10: a position's value fields                                          *)

\* C10: in every summary returned position_value is absent exactly when
\* current_price is absent, a defined position_value is current_price *
\* quantity, and total.portfolio_value is the sum of the defined position
\* values; also for a fetched price of exactly 0.  (For a price of 0 the code
\* reports current_price 0 with position_value absent.)
C10_PositionValueConsistent ==
    \A r \in Handlers :
        (req[r].kind = "portfolio" /\ Answered(r, 200)) =>
            LET body == req[r].response[1].body[1]
            IN  /\ \A ex \in Exchanges :
                      /\ body[ex].position_value = PyNone
                            <=> body[ex].current_price = PyNone
                      /\ body[ex].position_value # PyNone
                            => body[ex].position_value
                                  = PyFloat(FMul(FloatOf(body[ex].current_price),
                                                 Quantity(ex).f))
                /\ Return(body.total.portfolio_value)
                      = Bind("+",
                             PyAdd(ZeroInt, ValueOrZero(body.jarsy.position_value)),
                             Return(ValueOrZero(body.jupiter.position_value)))

============================================================================
